---- MODULE Spec2Model ----
(***************************************************************************)
(* klujax 0.0.6 (src/klujax.py): the dispatch layer around the KLU sparse  *)
(* solve / COO matrix-vector product.  Arrays are records of an element    *)
(* type, a shape and the row-major sequence of their elements; elements    *)
(* are symbolic (each input element is tagged with the buffer it comes     *)
(* from and its position there), and the native kernel is a free function  *)
(* of the matrix-values row and the operand column it is applied to, so    *)
(* that an equality found here holds for every kernel and every value.     *)
(***************************************************************************)
EXTENDS Integers, Sequences, FiniteSets, TLC

(* ---------------- bounds of the enumerated inputs ---------------- *)
MaxBatch == 2
MaxNnz == 2
MaxCol == 2
MaxRhs == 2

(* ---------------- element types ---------------- *)
\* an element type is <<kind, bits>>: kind "b" bool, "i" int, "f" float, "c" complex
bool_ == <<"b", 8>>
int32 == <<"i", 32>>
int64 == <<"i", 64>>
float32 == <<"f", 32>>
float64 == <<"f", 64>>
complex64 == <<"c", 64>>
complex128 == <<"c", 128>>
complex256 == <<"c", 256>>

\* the element types a framework array can carry (x64 enabled, line 16)
ArrayDtypes == {bool_, int32, int64, float32, float64, complex64, complex128}

COMPLEX_DTYPES == {complex64, complex128, complex256, complex64, complex128}

Primitives == {"solve_f64", "solve_c128", "coo_mul_vec_f64", "coo_mul_vec_c128"}

None == -1

(* ---------------- arrays ---------------- *)
RECURSIVE prod(_)
prod(s) == IF s = <<>> THEN 1 ELSE Head(s) * prod(Tail(s))

\* an input element: buffer name and flat position
Elem(src, i) == [src |-> src, i |-> i, op |-> "", A |-> <<>>, v |-> <<>>]

\* the user's array `name` of the given element type and shape
Arr(name, dtype, shape) ==
    [dtype |-> dtype, shape |-> shape,
     data |-> [k \in 1..prod(shape) |-> Elem(name, k - 1)]]

NoArray == [dtype |-> <<"none", 0>>, shape |-> <<>>, data |-> <<>>]

astype(a, dtype) == [a EXCEPT !.dtype = dtype]

\* row-major index of flat position k (0-based) in an array of the given shape
RECURSIVE Unravel(_, _)
Unravel(k, shape) ==
    IF shape = <<>> THEN <<>>
    ELSE LET inner == prod(Tail(shape))
         IN  <<k \div inner>> \o Unravel(k % inner, Tail(shape))

RECURSIVE Ravel(_, _)
Ravel(idx, shape) ==
    IF shape = <<>> THEN 0
    ELSE Head(idx) * prod(Tail(shape)) + Ravel(Tail(idx), Tail(shape))

Reshape(a, shape) == [a EXCEPT !.shape = shape]

\* output dimension i is input dimension perm[i] (0-based axes)
Transpose(a, perm) ==
    LET n == Len(perm)
        oshape == [i \in 1..n |-> a.shape[perm[i] + 1]]
        src(oidx) == [j \in 1..n |-> oidx[CHOOSE i \in 1..n : perm[i] + 1 = j]]
    IN  [dtype |-> a.dtype, shape |-> oshape,
         data |-> [k \in 1..prod(oshape) |->
                      a.data[Ravel(src(Unravel(k - 1, oshape)), a.shape) + 1]]]

\* jnp.moveaxis(a, source, 0)
moveaxis(a, source) ==
    LET n == Len(a.shape)
        perm == [i \in 1..n |-> IF i = 1 THEN source
                                ELSE IF i - 1 <= source THEN i - 2 ELSE i - 1]
    IN  Transpose(a, perm)

\* jnp.broadcast_to(b[None], (k, *b.shape))
broadcast_to(b, k) ==
    LET n == prod(b.shape)
    IN  [dtype |-> b.dtype, shape |-> <<k>> \o b.shape,
         data |-> [p \in 1..(k * n) |-> b.data[((p - 1) % n) + 1]]]

\* lax.zeros_like_array(a)
zeros_like_array(a) ==
    [dtype |-> a.dtype, shape |-> a.shape,
     data |-> [k \in 1..prod(a.shape) |-> Elem("zero", 0)]]

(* ---------------- outcomes of a call ---------------- *)
\* kcalls: the native kernel invocations made, in order; binds: the primitives bound
Raise(exc, msg, binds) ==
    [status |-> exc, msg |-> msg, value |-> NoArray, aval |-> <<>>,
     binds |-> binds, kcalls |-> <<>>]

(* ---------------- the native kernel (klujax_cpp) ---------------- *)
\* out[(l*n_rhs + r)*n_col + c] is component c of the kernel's result for the
\* matrix-values row l and the operand block (l, r); the index arrays, which no
\* caller changes, are kept in the record of the invocation
klujax_cpp(primitive_name, n_col, n_lhs, n_rhs, Anz, Ax, b) ==
    [p \in 1..(n_lhs * n_rhs * n_col) |->
        LET blk == (p - 1) \div n_col
            l == blk \div n_rhs
        IN  [src |-> "kernel", i |-> (p - 1) % n_col, op |-> primitive_name,
             A |-> SubSeq(Ax, l * Anz + 1, (l + 1) * Anz),
             v |-> SubSeq(b, blk * n_col + 1, (blk + 1) * n_col)]]

(* ---------------- abstract evaluation ---------------- *)
coo_vec_operation_impl(Ai, Aj, Ax, b) == [shape |-> b.shape, dtype |-> b.dtype]

(* ---------------- CPU lowering ---------------- *)
\* slip: the operand flattened without the transpose
ReorderOperand_NoTranspose(b, n_lhs, n_col, n_rhs) ==
    Reshape(b, <<n_lhs * n_rhs * n_col>>)

\* the operand as handed to the kernel
ReorderOperand(b, n_lhs, n_col, n_rhs) ==
    Reshape(Transpose(Reshape(b, <<n_lhs, n_col, n_rhs>>), <<0, 2, 1>>),
            <<n_lhs * n_rhs * n_col>>)

\* slip: the kernel's output reshaped without the transpose back
ReorderResult_NoTranspose(result, n_lhs, n_col, n_rhs, shape) ==
    Reshape(result, shape)

\* the kernel's flat output as returned to the caller
ReorderResult(result, n_lhs, n_col, n_rhs, shape) ==
    Reshape(Transpose(Reshape(result, <<n_lhs, n_rhs, n_col>>), <<0, 2, 1>>), shape)

coo_vec_operation_xla(primitive_name, Ai, Aj, Ax0, b0) ==
    LET bind == <<[prim |-> primitive_name, Ai |-> Ai.dtype, Aj |-> Aj.dtype,
                   Ax |-> Ax0.dtype, b |-> b0.dtype,
                   Ax_shape |-> Ax0.shape, b_shape |-> b0.shape]>>
        dims == Ax0.shape
        n_lhs_list == SubSeq(dims, 1, Len(dims) - 1)
        Anz == dims[Len(dims)]
        n_lhs == prod(n_lhs_list)
        Ax == Reshape(Ax0, <<n_lhs * Anz>>)
        bdims == b0.shape
        lead == IF n_lhs_list # <<>> THEN 1 ELSE 0
        n_lhs_b == IF n_lhs_list # <<>> THEN bdims[1] ELSE 1
        n_col == bdims[lead + 1]
        n_rhs_list == SubSeq(bdims, lead + 2, Len(bdims))
        n_rhs == prod(n_rhs_list)
        b == ReorderOperand(b0, n_lhs, n_col, n_rhs)
        kcall == [prim |-> primitive_name, n_col |-> n_col, n_lhs |-> n_lhs,
                  n_rhs |-> n_rhs, Anz |-> Anz, Ai |-> Ai.data, Aj |-> Aj.data,
                  Ax |-> Ax.data, b |-> b.data,
                  out |-> klujax_cpp(primitive_name, n_col, n_lhs, n_rhs, Anz,
                                     Ax.data, b.data)]
        r0 == [dtype |-> b.dtype, shape |-> b.shape, data |-> kcall.out]
        result == IF n_lhs_list # <<>>
                  THEN ReorderResult(r0, n_lhs, n_col, n_rhs, <<n_lhs, n_col>> \o n_rhs_list)
                  ELSE ReorderResult(r0, n_lhs, n_col, n_rhs, <<n_col>> \o n_rhs_list)
    IN  IF ~(Len(n_lhs_list) < 2)
        THEN Raise("AssertionError", "solve alows for maximum one batch dimension.", bind)
        ELSE IF Len(bdims) < lead + 1
        THEN Raise("ValueError", "not enough values to unpack", bind)
        ELSE IF ~(n_lhs_b = n_lhs)
        THEN Raise("AssertionError", "Batch dimension of Ax and b don't match.", bind)
        ELSE [status |-> "ok", msg |-> "", value |-> result,
              aval |-> coo_vec_operation_impl(Ai, Aj, Ax0, b0),
              binds |-> bind, kcalls |-> <<kcall>>]

(* ---------------- the two user functions ---------------- *)
\* slip: only the element type of Ax selects the variant
solve_AxOnly(Ai, Aj, Ax, b) ==
    IF Ax.dtype \in COMPLEX_DTYPES
    THEN coo_vec_operation_xla("solve_c128", astype(Ai, int32), astype(Aj, int32),
                               astype(Ax, complex128), astype(b, complex128))
    ELSE coo_vec_operation_xla("solve_f64", astype(Ai, int32), astype(Aj, int32),
                               astype(Ax, float64), astype(b, float64))

solve(Ai, Aj, Ax, b) ==
    IF \E x \in {Ax, b} : x.dtype \in COMPLEX_DTYPES
    THEN coo_vec_operation_xla("solve_c128", astype(Ai, int32), astype(Aj, int32),
                               astype(Ax, complex128), astype(b, complex128))
    ELSE coo_vec_operation_xla("solve_f64", astype(Ai, int32), astype(Aj, int32),
                               astype(Ax, float64), astype(b, float64))

coo_mul_vec(Ai, Aj, Ax, b) ==
    IF \E x \in {Ax, b} : x.dtype \in COMPLEX_DTYPES
    THEN coo_vec_operation_xla("coo_mul_vec_c128", astype(Ai, int32), astype(Aj, int32),
                               astype(Ax, complex128), astype(b, complex128))
    ELSE coo_vec_operation_xla("coo_mul_vec_f64", astype(Ai, int32), astype(Aj, int32),
                               astype(Ax, float64), astype(b, float64))

(* ---------------- batching rule ---------------- *)
\* slip: the batch folded into the operand count without the transpose
FoldBatch_NoTranspose(b, n_lhs, n_col, n_rhs) ==
    Reshape(b, <<n_col, n_lhs * n_rhs>>)

\* b [n_lhs, n_col, ...] with the batch folded into the operand count
FoldBatch(b, n_lhs, n_col, n_rhs) ==
    Reshape(Transpose(Reshape(b, <<n_lhs, n_col, n_rhs>>), <<1, 0, 2>>),
            <<n_col, n_lhs * n_rhs>>)

Apply(operation, Ai, Aj, Ax, b) ==
    IF operation = "solve" THEN solve(Ai, Aj, Ax, b) ELSE coo_mul_vec(Ai, Aj, Ax, b)

\* the outcome of a rule that made the operation calls `ops` and ended with outcome r
Batched(r, value, axis, ops) ==
    [status |-> r.status, msg |-> r.msg,
     value |-> IF r.status = "ok" THEN value ELSE NoArray,
     out_axis |-> IF r.status = "ok" THEN axis ELSE None,
     ops |-> ops, binds |-> r.binds, kcalls |-> r.kcalls]

coo_vec_operation_vmap(operation, Ai, Aj, Ax, b, aAi, aAj, aAx, ab) ==
    IF ~(aAi = None)
    THEN Batched(Raise("AssertionError", "Ai cannot be vectorized.", <<>>), NoArray, None, <<>>)
    ELSE IF ~(aAj = None)
    THEN Batched(Raise("AssertionError", "Aj cannot be vectorized.", <<>>), NoArray, None, <<>>)
    ELSE IF aAx # None /\ ab # None
    THEN LET Ax1 == IF ab # 0 THEN moveaxis(Ax, aAx) ELSE Ax
             b1 == IF ab # 0 THEN moveaxis(b, ab) ELSE b
             r == Apply(operation, Ai, Aj, Ax1, b1)
         IN  Batched(r, r.value, 0, <<[operation |-> operation, Ax |-> Ax1, b |-> b1]>>)
    ELSE IF ab = None
    THEN IF aAx = None
         THEN Batched(Raise("AssertionError", "", <<>>), NoArray, None, <<>>)
         ELSE LET Ax1 == IF aAx # 0 THEN moveaxis(Ax, aAx) ELSE Ax
                  b1 == broadcast_to(b, Ax1.shape[1])
                  r == Apply(operation, Ai, Aj, Ax1, b1)
              IN  Batched(r, r.value, 0, <<[operation |-> operation, Ax |-> Ax1, b |-> b1]>>)
    ELSE LET b1 == IF ab # 0 THEN moveaxis(b, ab) ELSE b
             n_lhs == b1.shape[1]
             n_col == b1.shape[2]
             n_rhs_list == SubSeq(b1.shape, 3, Len(b1.shape))
             n_rhs == prod(n_rhs_list)
             b2 == FoldBatch(b1, n_lhs, n_col, n_rhs)
             r == Apply(operation, Ai, Aj, Ax, b2)
         IN  IF Len(b1.shape) < 2
             THEN Batched(Raise("ValueError", "not enough values to unpack", <<>>),
                          NoArray, None, <<>>)
             ELSE Batched(r, Reshape(r.value, <<n_col, n_lhs>> \o n_rhs_list), 1,
                          <<[operation |-> operation, Ax |-> Ax, b |-> b2]>>)

(* ---------------- differentiation rules ---------------- *)
\* the framework's symbolic zero tangent (ad.Zero)
Zero == [dtype |-> <<"Zero", 0>>, shape |-> <<>>, data |-> <<>>]

\* element-wise difference of two arrays of one shape
Minus(x, y) ==
    [x EXCEPT !.data = [k \in DOMAIN x.data |->
                           [src |-> "minus", i |-> 0, op |-> "",
                            A |-> <<x.data[k]>>, v |-> <<y.data[k]>>]]]

\* the rule with the product dA x subtracted from db
solve_f64_value_and_jvp_Subtracting(Ai, Aj, Ax, b, dAi0, dAj0, dAx0, db0) ==
    LET dAx == IF ~(dAx0 = Zero) THEN dAx0 ELSE zeros_like_array(Ax)
        db == IF ~(db0 = Zero) THEN db0 ELSE zeros_like_array(b)
        x == solve(Ai, Aj, Ax, b)
        dA_x == coo_mul_vec(Ai, Aj, dAx, x.value)
        dx == solve(Ai, Aj, Ax, Minus(db, dA_x.value))
    IN  [status |-> dx.status, msg |-> dx.msg, primal |-> x.value, tangent |-> dx.value,
         binds |-> x.binds \o dA_x.binds \o dx.binds,
         kcalls |-> x.kcalls \o dA_x.kcalls \o dx.kcalls]

solve_f64_value_and_jvp(Ai, Aj, Ax, b, dAi0, dAj0, dAx0, db0) ==
    LET dAx == IF ~(dAx0 = Zero) THEN dAx0 ELSE zeros_like_array(Ax)
        dAi == IF ~(dAi0 = Zero) THEN dAi0 ELSE zeros_like_array(Ai)
        dAj == IF ~(dAj0 = Zero) THEN dAj0 ELSE zeros_like_array(Aj)
        db == IF ~(db0 = Zero) THEN db0 ELSE zeros_like_array(b)
        x == solve(Ai, Aj, Ax, b)
        dA_x == coo_mul_vec(Ai, Aj, dAx, x.value)
        dx == solve(Ai, Aj, Ax, db)
        failed == IF x.status # "ok" THEN x ELSE IF dA_x.status # "ok" THEN dA_x ELSE dx
    IN  [status |-> failed.status, msg |-> failed.msg,
         primal |-> IF failed.status = "ok" THEN x.value ELSE NoArray,
         tangent |-> IF failed.status = "ok" THEN dx.value ELSE NoArray,
         binds |-> IF x.status # "ok" THEN x.binds
                   ELSE IF dA_x.status # "ok" THEN x.binds \o dA_x.binds
                   ELSE x.binds \o dA_x.binds \o dx.binds,
         kcalls |-> IF x.status # "ok" THEN x.kcalls
                    ELSE IF dA_x.status # "ok" THEN x.kcalls \o dA_x.kcalls
                    ELSE x.kcalls \o dA_x.kcalls \o dx.kcalls]

\* b_undefined: b is the framework's undefined-primal marker
solve_f64_transpose(ct, Ai, Aj, Ax, b_undefined) ==
    IF ~b_undefined
    THEN [status |-> "AssertionError", msg |-> "", cts |-> <<>>, binds |-> <<>>, kcalls |-> <<>>]
    ELSE LET ct_b == solve(Ai, Aj, Ax, ct)
         IN  [status |-> ct_b.status, msg |-> ct_b.msg,
              cts |-> IF ct_b.status = "ok" THEN <<None, None, None, ct_b.value>> ELSE <<>>,
              binds |-> ct_b.binds, kcalls |-> ct_b.kcalls]

(* ---------------- the enumerated inputs ---------------- *)
Batches == 1..MaxBatch

\* the trailing (right-hand-side) dimensions of an operand: none, one or two
TrailingShapes == {<<>>} \cup {<<r>> : r \in 1..MaxRhs}
                         \cup {<<r, MaxRhs>> : r \in 1..MaxRhs}

\* shapes of Ax, including those with more than one leading axis
AxShapes == {lead \o <<nz>> :
                lead \in {<<>>} \cup {<<k>> : k \in Batches}
                                \cup {<<k, m>> : k \in Batches, m \in Batches},
                nz \in 1..MaxNnz}

BShapes == {lead \o <<n>> \o t :
                lead \in {<<>>} \cup {<<k>> : k \in Batches},
                n \in 1..MaxCol, t \in TrailingShapes}

\* shape pairs within the shape contract, Ax [batch?, nnz] and
\* b [batch?, n_cols, ...trailing]: those the rules are invoked with
RuleShapes == {<<lead \o <<MaxNnz>>, lead \o <<n>> \o t>> :
                    lead \in {<<>>, <<MaxBatch>>}, n \in 1..MaxCol, t \in TrailingShapes}

\* and those every pair of element types is tried on
TypeShapes == {<<lead \o <<MaxNnz>>, lead \o <<MaxCol>> \o t>> :
                    lead \in {<<>>} \cup {<<k>> : k \in Batches}, t \in {<<>>, <<MaxRhs>>}}

IndexArr(name, dtype, Ax_shape) == Arr(name, dtype, <<Ax_shape[Len(Ax_shape)]>>)

\* an array with one more axis of extent k inserted at position axis (None: not batched)
WithAxis(shape, axis, k) ==
    IF axis = None THEN shape
    ELSE SubSeq(shape, 1, axis) \o <<k>> \o SubSeq(shape, axis + 1, Len(shape))

Axes(shape) == {None} \cup (0..Len(shape))

(* ---------------- state ---------------- *)
VARIABLES ip, abstract_evals, backend_specific_translations, primitive_jvps,
          primitive_transposes, primitive_batchers, call, ret

vars == <<ip, abstract_evals, backend_specific_translations, primitive_jvps,
          primitive_transposes, primitive_batchers, call, ret>>

registries == <<abstract_evals, backend_specific_translations, primitive_jvps,
                primitive_transposes, primitive_batchers>>

\* the registering statements of the module in execution order (stacked
\* decorators apply bottom-up)
ModuleBody ==
    << <<"def_abstract_eval", "coo_mul_vec_c128">>, <<"def_abstract_eval", "coo_mul_vec_f64">>,
       <<"def_abstract_eval", "solve_c128">>, <<"def_abstract_eval", "solve_f64">>,
       <<"xla_register_cpu", "coo_mul_vec_c128">>, <<"xla_register_cpu", "coo_mul_vec_f64">>,
       <<"xla_register_cpu", "solve_c128">>, <<"xla_register_cpu", "solve_f64">>,
       <<"ad_register", "solve_f64">>,
       <<"transpose_register", "solve_f64">>,
       <<"vmap_register", "coo_mul_vec_c128", "coo_mul_vec">>,
       <<"vmap_register", "coo_mul_vec_f64", "coo_mul_vec">>,
       <<"vmap_register", "solve_c128", "solve">>,
       <<"vmap_register", "solve_f64", "solve">> >>

NoCall == [fn |-> "none"]

Init ==
    /\ ip = 1
    /\ abstract_evals = {}
    /\ backend_specific_translations = {}
    /\ primitive_jvps = {}
    /\ primitive_transposes = {}
    /\ primitive_batchers = {}
    /\ call = NoCall
    /\ ret = NoCall

imported == ip > Len(ModuleBody)

(* ---------------- import: the registrations ---------------- *)
def_abstract_eval(primitive) ==
    /\ ~imported /\ ModuleBody[ip] = <<"def_abstract_eval", primitive>>
    /\ abstract_evals' = abstract_evals \cup {<<primitive, "coo_vec_operation_impl">>}
    /\ ip' = ip + 1
    /\ UNCHANGED <<backend_specific_translations, primitive_jvps, primitive_transposes,
                   primitive_batchers, call, ret>>

xla_register_cpu(primitive) ==
    /\ ~imported /\ ModuleBody[ip] = <<"xla_register_cpu", primitive>>
    /\ backend_specific_translations' =
           backend_specific_translations \cup {<<primitive, "coo_vec_operation_xla">>}
    /\ ip' = ip + 1
    /\ UNCHANGED <<abstract_evals, primitive_jvps, primitive_transposes,
                   primitive_batchers, call, ret>>

ad_register(primitive) ==
    /\ ~imported /\ ModuleBody[ip] = <<"ad_register", primitive>>
    /\ primitive_jvps' = primitive_jvps \cup {<<primitive, "solve_f64_value_and_jvp">>}
    /\ ip' = ip + 1
    /\ UNCHANGED <<abstract_evals, backend_specific_translations, primitive_transposes,
                   primitive_batchers, call, ret>>

transpose_register(primitive) ==
    /\ ~imported /\ ModuleBody[ip] = <<"transpose_register", primitive>>
    /\ primitive_transposes' = primitive_transposes \cup {<<primitive, "solve_f64_transpose">>}
    /\ ip' = ip + 1
    /\ UNCHANGED <<abstract_evals, backend_specific_translations, primitive_jvps,
                   primitive_batchers, call, ret>>

vmap_register(primitive, operation) ==
    /\ ~imported /\ ModuleBody[ip] = <<"vmap_register", primitive, operation>>
    /\ primitive_batchers' = primitive_batchers \cup {<<primitive, operation>>}
    /\ ip' = ip + 1
    /\ UNCHANGED <<abstract_evals, backend_specific_translations, primitive_jvps,
                   primitive_transposes, call, ret>>

(* ---------------- calls ---------------- *)
\* element type of the operands of a bound primitive
PrimDtype(primitive) == IF primitive \in {"solve_c128", "coo_mul_vec_c128"}
                        THEN complex128 ELSE float64

\* a user call of solve or coo_mul_vec
UserCall(operation, Ai, Aj, Ax, b) ==
    /\ call' = [fn |-> operation, Ai |-> Ai, Aj |-> Aj, Ax |-> Ax, b |-> b]
    /\ ret' = Apply(operation, Ai, Aj, Ax, b)
    /\ UNCHANGED <<ip, registries>>

\* every pair of element types on operands within the shape contract
CallTypes(operation) ==
    /\ imported /\ call = NoCall
    /\ \E di \in {int32, int64}, dx \in ArrayDtypes, db \in ArrayDtypes,
          sh \in TypeShapes :
        UserCall(operation, IndexArr("Ai", di, sh[1]), IndexArr("Aj", di, sh[1]),
                 Arr("Ax", dx, sh[1]), Arr("b", db, sh[2]))

\* every pair of shapes, within the shape contract or not
CallShapes(operation) ==
    /\ imported /\ call = NoCall
    /\ \E sa \in AxShapes, sb \in BShapes :
        UserCall(operation, IndexArr("Ai", int32, sa), IndexArr("Aj", int32, sa),
                 Arr("Ax", float64, sa), Arr("b", float64, sb))

\* the framework batches a bound primitive: Ax is [batch?, nnz], b is
\* [batch?, n_cols, ...trailing], and the mapped axis of extent k is added at
\* aAx in Ax and/or at ab in b
Batch ==
    /\ imported /\ call = NoCall
    /\ \E reg \in primitive_batchers, sh \in RuleShapes, k \in Batches,
          ai \in {<<None, None>>, <<0, None>>, <<None, 0>>} :
        \E aAx \in Axes(sh[1]), ab \in Axes(sh[2]) :
        LET dt == PrimDtype(reg[1])
            Ai == IndexArr("Ai", int32, sh[1])
            Aj == IndexArr("Aj", int32, sh[1])
            Ax == Arr("Ax", dt, WithAxis(sh[1], aAx, k))
            b == Arr("b", dt, WithAxis(sh[2], ab, k))
        IN  /\ (aAx # None \/ ab # None \/ ai # <<None, None>>)
            /\ (ai # <<None, None>> => sh[2] = <<MaxCol>>)
            /\ call' = [fn |-> "vmap", prim |-> reg[1], operation |-> reg[2],
                        Ai |-> Ai, Aj |-> Aj, Ax |-> Ax, b |-> b,
                        aAi |-> ai[1], aAj |-> ai[2], aAx |-> aAx, ab |-> ab,
                        inner_Ax |-> sh[1], inner_b |-> sh[2], k |-> k]
            /\ ret' = coo_vec_operation_vmap(reg[2], Ai, Aj, Ax, b, ai[1], ai[2], aAx, ab)
            /\ UNCHANGED <<ip, registries>>

Tangents(name, primal) == {Zero, Arr(name, primal.dtype, primal.shape)}

\* the framework differentiates a bound primitive forward
Jvp ==
    /\ imported /\ call = NoCall
    /\ \E reg \in primitive_jvps, sh \in RuleShapes :
        LET dt == PrimDtype(reg[1])
            Ai == IndexArr("Ai", int32, sh[1])
            Aj == IndexArr("Aj", int32, sh[1])
            Ax == Arr("Ax", dt, sh[1])
            b == Arr("b", dt, sh[2])
        IN  \E dAi \in Tangents("dAi", Ai), dAj \in Tangents("dAj", Aj),
               dAx \in Tangents("dAx", Ax) \cup {Arr("dAx2", dt, sh[1])},
               db \in Tangents("db", b) :
            /\ call' = [fn |-> "jvp", prim |-> reg[1], Ai |-> Ai, Aj |-> Aj, Ax |-> Ax,
                        b |-> b, dAi |-> dAi, dAj |-> dAj, dAx |-> dAx, db |-> db]
            /\ ret' = solve_f64_value_and_jvp(Ai, Aj, Ax, b, dAi, dAj, dAx, db)
            /\ UNCHANGED <<ip, registries>>

\* the framework transposes a bound primitive
TransposeRule ==
    /\ imported /\ call = NoCall
    /\ \E reg \in primitive_transposes, sh \in RuleShapes, b_undefined \in BOOLEAN :
        LET dt == PrimDtype(reg[1])
            Ai == IndexArr("Ai", int32, sh[1])
            Aj == IndexArr("Aj", int32, sh[1])
            Ax == Arr("Ax", dt, sh[1])
            ct == Arr("ct", dt, sh[2])
        IN  /\ call' = [fn |-> "transpose", prim |-> reg[1], Ai |-> Ai, Aj |-> Aj,
                        Ax |-> Ax, ct |-> ct, b_undefined |-> b_undefined]
            /\ ret' = solve_f64_transpose(ct, Ai, Aj, Ax, b_undefined)
            /\ UNCHANGED <<ip, registries>>

Next ==
    \/ \E p \in Primitives : def_abstract_eval(p)
    \/ \E p \in Primitives : xla_register_cpu(p)
    \/ \E p \in Primitives : ad_register(p)
    \/ \E p \in Primitives : transpose_register(p)
    \/ \E p \in Primitives, operation \in {"solve", "coo_mul_vec"} : vmap_register(p, operation)
    \/ \E operation \in {"solve", "coo_mul_vec"} : CallTypes(operation)
    \/ \E operation \in {"solve", "coo_mul_vec"} : CallShapes(operation)
    \/ Batch
    \/ Jvp
    \/ TransposeRule

Spec == Init /\ [][Next]_vars

(* ======================= properties ======================= *)
IsUserCall == call.fn \in {"solve", "coo_mul_vec"}

\* element of a at the 0-based index idx
At(a, idx) == a.data[Ravel(idx, a.shape) + 1]

\* the sub-array of a at position i of the given axis
Take(a, axis, i) ==
    LET n == Len(a.shape)
        oshape == SubSeq(a.shape, 1, axis) \o SubSeq(a.shape, axis + 2, n)
    IN  [dtype |-> a.dtype, shape |-> oshape,
         data |-> [k \in 1..prod(oshape) |->
                     LET o == Unravel(k - 1, oshape)
                     IN  At(a, SubSeq(o, 1, axis) \o <<i>> \o SubSeq(o, axis + 1, n - 1))]]

\* the operation applied independently to each pair of a matrix-values row and
\* an operand column: for Ax [batch?, nnz] and b [batch?, n_cols, ...trailing],
\* the element at (batch l, column c, trailing t) is component c of the
\* kernel's result for row l of Ax and the column (l, t) of b
Reference(primitive, Ax, b) ==
    LET batched == Len(Ax.shape) = 2
        n_lhs == IF batched THEN Ax.shape[1] ELSE 1
        nnz == Ax.shape[Len(Ax.shape)]
        n_col == IF batched THEN b.shape[2] ELSE b.shape[1]
        n_rhs == prod(SubSeq(b.shape, IF batched THEN 3 ELSE 2, Len(b.shape)))
        dims == <<n_lhs, n_col, n_rhs>>
    IN  [dtype |-> b.dtype, shape |-> b.shape,
         data |-> [k \in 1..prod(b.shape) |->
                     LET o == Unravel(k - 1, dims)
                     IN  [src |-> "kernel", i |-> o[2], op |-> primitive,
                          A |-> SubSeq(Ax.data, o[1] * nnz + 1, (o[1] + 1) * nnz),
                          v |-> [c \in 1..n_col |->
                                   b.data[Ravel(<<o[1], c - 1, o[3]>>, dims) + 1]]]]]

\* the variant of an operation for an element kind
Variant(operation, complex) ==
    IF operation = "solve"
    THEN (IF complex THEN "solve_c128" ELSE "solve_f64")
    ELSE (IF complex THEN "coo_mul_vec_c128" ELSE "coo_mul_vec_f64")

\* Ax is [batch?, nnz] and b is [batch?, n_cols, ...trailing] with the same batch
InContract(Ax_shape, b_shape) ==
    \/ Len(Ax_shape) = 1 /\ Len(b_shape) >= 1
    \/ Len(Ax_shape) = 2 /\ Len(b_shape) >= 2 /\ b_shape[1] = Ax_shape[1]

\* C1: a call of solve or coo_mul_vec binds the complex128 primitive of that
\* operation exactly when Ax or b has a complex element type and the float64
\* primitive otherwise; the indices are cast to int32 and Ax and b to the
\* selected type, which is the type of the result; within the shape contract
\* no combination of element types ends in an error.
C1_TypePromotion ==
    IsUserCall =>
        LET complex == call.Ax.dtype[1] = "c" \/ call.b.dtype[1] = "c"
            T == IF complex THEN complex128 ELSE float64
        IN  /\ Len(ret.binds) = 1
            /\ ret.binds[1].prim = Variant(call.fn, complex)
            /\ ret.binds[1].Ai = int32 /\ ret.binds[1].Aj = int32
            /\ ret.binds[1].Ax = T /\ ret.binds[1].b = T
            /\ InContract(call.Ax.shape, call.b.shape) =>
                   ret.status = "ok" /\ ret.value.dtype = T

C1_Witness_RealMatrixComplexRhs ==
    /\ IsUserCall /\ call.Ax.dtype = float32 /\ call.b.dtype = complex64
    /\ ret.status = "ok" /\ ret.value.dtype = complex128
    /\ ret.binds[1].prim = "coo_mul_vec_c128"

\* C4: the lowering's reorder after the kernel inverts its reorder before it:
\* the result of a call within the shape contract has the shape of b, which is
\* the shape the abstract evaluation reports, and its element at each index is
\* the kernel-output element at the flat position where the element of b at
\* that index was placed.
C4_ReorderInverse ==
    (IsUserCall /\ InContract(call.Ax.shape, call.b.shape)) =>
        /\ ret.status = "ok"
        /\ ret.value.shape = call.b.shape
        /\ ret.aval.shape = call.b.shape
        /\ Len(ret.kcalls) = 1
        /\ Len(ret.kcalls[1].b) = Len(call.b.data)
        /\ Len(ret.kcalls[1].out) = Len(call.b.data)
        /\ \A k \in 1..Len(call.b.data) :
              \E p \in 1..Len(call.b.data) :
                  /\ ret.kcalls[1].b[p] = call.b.data[k]
                  /\ ret.value.data[k] = ret.kcalls[1].out[p]

C4_Witness_BatchedMultiRhs ==
    /\ IsUserCall /\ ret.status = "ok"
    /\ Len(call.Ax.shape) = 2 /\ call.Ax.shape[1] = 2
    /\ call.b.shape = <<2, 2, 2, 2>>
    /\ ret.value.shape = <<2, 2, 2, 2>>
    /\ ret.kcalls[1].b # call.b.data

\* the operand counts the lowering hands to the kernel
KDims(kc) == <<kc.n_lhs, kc.n_col, kc.n_rhs>>

\* C8 (as claimed): the flat operand buffer is operand-count-major,
\* batch-second, column-minor: the element of b at (batch l, column c,
\* operand r) is at flat index r*(n_batch*n_cols) + l*n_cols + c.
C8_OperandMajorLayout ==
    (IsUserCall /\ ret.status = "ok") =>
        LET kc == ret.kcalls[1]
        IN  \A l \in 0..(kc.n_lhs - 1), c \in 0..(kc.n_col - 1), r \in 0..(kc.n_rhs - 1) :
                kc.b[r * (kc.n_lhs * kc.n_col) + l * kc.n_col + c + 1]
                    = call.b.data[Ravel(<<l, c, r>>, KDims(kc)) + 1]

\* C8 (amended): the flat operand buffer of length n_batch*n_operands*n_cols
\* is batch-major, operand-count-second, column-minor: the element of b at
\* (batch l, column c, operand r) is at flat index
\* l*(n_operands*n_cols) + r*n_cols + c, with n_batch = 1 when Ax has no
\* batch axis.
C8_BatchMajorLayout ==
    (IsUserCall /\ ret.status = "ok") =>
        LET kc == ret.kcalls[1]
        IN  /\ Len(kc.b) = kc.n_lhs * kc.n_rhs * kc.n_col
            /\ Len(call.Ax.shape) = 1 => kc.n_lhs = 1
            /\ \A l \in 0..(kc.n_lhs - 1), c \in 0..(kc.n_col - 1), r \in 0..(kc.n_rhs - 1) :
                kc.b[l * (kc.n_rhs * kc.n_col) + r * kc.n_col + c + 1]
                    = call.b.data[Ravel(<<l, c, r>>, KDims(kc)) + 1]

C8_Witness_BatchAndOperands ==
    /\ IsUserCall /\ ret.status = "ok"
    /\ ret.kcalls[1].n_lhs = 2 /\ ret.kcalls[1].n_rhs = 2 /\ ret.kcalls[1].n_col = 2
    /\ ret.kcalls[1].b[3] = call.b.data[2]

(* ---------------- batching ---------------- *)
IsBatch == call.fn = "vmap" /\ call.aAi = None /\ call.aAj = None

\* slice i of a batched argument, or the shared argument
Slice(a, axis, i) == IF axis = None THEN a ELSE Take(a, axis, i)

\* C2 (as claimed): in each of the three batching cases and for every batch
\* count and batch-axis position, the result of the batching rule read at
\* index i of the batch axis it reports is the result of the unbatched
\* operation on the i-th matrix-values slice (or the shared Ax) and the i-th
\* operand slice (or the shared b).
C2_BatchingEquivalence ==
    (IsBatch /\ Len(call.inner_Ax) = 1) =>
        /\ ret.status = "ok"
        /\ \A i \in 0..(call.k - 1) :
              Take(ret.value, ret.out_axis, i)
                  = Reference(call.prim, Slice(call.Ax, call.aAx, i),
                              Slice(call.b, call.ab, i))

\* C6 (as claimed): when both Ax and b are batched, for every pair of batch
\* axes the rule calls the operation with the batch axis of Ax at position 0
\* and the batch axis of b at position 0, and reports result batch axis 0.
C6_BothBatchedAligned ==
    (IsBatch /\ call.aAx # None /\ call.ab # None) =>
        /\ Len(ret.ops) = 1
        /\ ret.ops[1].Ax.shape[1] = call.k
        /\ ret.ops[1].b.shape[1] = call.k
        /\ \A l \in 0..(call.k - 1) :
              /\ Take(ret.ops[1].Ax, 0, l) = Take(call.Ax, call.aAx, l)
              /\ Take(ret.ops[1].b, 0, l) = Take(call.b, call.ab, l)
        /\ Len(call.inner_Ax) = 1 => (ret.status = "ok" /\ ret.out_axis = 0)

\* C7: when only b is batched, on any axis, the rule invokes the operation
\* once, with the unbatched Ax and a 2-D operand [n_cols, batch*n_operands]
\* whose column l*n_operands + r holds operand column r of batch element l of
\* b; it reshapes the result to [n_cols, batch, ...trailing] and reports batch
\* axis 1, so that the result at (c, l, t) is the operation's output for batch
\* element l at column c, trailing index t.
C7_OnlyOperandBatched ==
    (IsBatch /\ call.aAx = None /\ call.ab # None /\ Len(call.inner_Ax) = 1) =>
        LET n_col == call.inner_b[1]
            trailing == Tail(call.inner_b)
            n_rhs == prod(trailing)
        IN  /\ ret.status = "ok"
            /\ Len(ret.ops) = 1 /\ Len(ret.binds) = 1 /\ Len(ret.kcalls) = 1
            /\ ret.ops[1].operation = call.operation
            /\ ret.ops[1].Ax = call.Ax
            /\ ret.ops[1].b.shape = <<n_col, call.k * n_rhs>>
            /\ \A l \in 0..(call.k - 1), c \in 0..(n_col - 1), r \in 0..(n_rhs - 1) :
                  At(ret.ops[1].b, <<c, l * n_rhs + r>>)
                      = Take(call.b, call.ab, l).data[c * n_rhs + r + 1]
            /\ ret.out_axis = 1
            /\ ret.value.shape = <<n_col, call.k>> \o trailing
            /\ \A l \in 0..(call.k - 1) :
                  Take(ret.value, 1, l)
                      = Reference(call.prim, call.Ax, Take(call.b, call.ab, l))

C7_Witness_BatchOnLastAxis ==
    /\ IsBatch /\ call.aAx = None /\ call.ab = 2 /\ call.inner_b = <<2, 2>>
    /\ call.k = 2 /\ Len(call.inner_Ax) = 1
    /\ ret.status = "ok" /\ ret.out_axis = 1 /\ ret.value.shape = <<2, 2, 2>>

\* C10 (as claimed): a call whose operands carry more than one batch dimension
\* ends in an error before the kernel is invoked and returns no result, both
\* when Ax has two or more leading axes before nnz and when a call whose Ax
\* is [batch, nnz] is batched again (over Ax, over b only, or over both).
C10_OneBatchDimension ==
    /\ (IsUserCall /\ Len(call.Ax.shape) >= 3) =>
           (ret.status # "ok" /\ ret.kcalls = <<>> /\ ret.value = NoArray)
    /\ (IsBatch /\ Len(call.inner_Ax) = 2) =>
           (ret.status # "ok" /\ ret.kcalls = <<>> /\ ret.value = NoArray)

(* ---------------- differentiation ---------------- *)
ZerosOf(a) == [a EXCEPT !.data = [k \in DOMAIN a.data |-> Elem("zero", 0)]]

OrZeros(tangent, primal) == IF tangent = Zero THEN ZerosOf(primal) ELSE tangent

\* C3 (as claimed): the forward-mode rule of solve, invoked with a tangent on
\* Ai or Aj that is not the zero-tangent marker, ends in an error and produces
\* no primal/tangent output.
C3_IndexTangentRejected ==
    (call.fn = "jvp" /\ (call.dAi # Zero \/ call.dAj # Zero)) =>
        (ret.status # "ok" /\ ret.primal = NoArray /\ ret.tangent = NoArray)

Registered(registry) == {reg[1] : reg \in registry}

\* C5 (as claimed): after the registration at import each of the four variants
\* has an abstract shape rule, a CPU lowering, a batching rule, a forward-mode
\* rule and a transpose rule.
C5_AllRulesRegistered ==
    imported =>
        \A p \in Primitives :
            /\ p \in Registered(abstract_evals)
            /\ p \in Registered(backend_specific_translations)
            /\ p \in Registered(primitive_batchers)
            /\ p \in Registered(primitive_jvps)
            /\ p \in Registered(primitive_transposes)

====
